---- MODULE Spec2Model ----
(***************************************************************************)
(* Model of pull_cdec_met.py (and its near-duplicate pull_snowcourses.py): *)
(* the metadata formatter, the observation formatter                       *)
(* organize_for_snowmodel, the two station loops and main.                 *)
(*                                                                         *)
(* The file system is a function from file names (sequences of characters) *)
(* to file contents.  Measurements are exact rationals [n, d]; d = 0 marks *)
(* a value that is not a finite number (NaN).  The remote collaborator     *)
(* (metloom / CDEC) is the environment: every call of it returns one of    *)
(* the outcomes its interface allows, chosen nondeterministically.         *)
(***************************************************************************)
EXTENDS Integers, Sequences, FiniteSets, TLC

\* ---------------------------------------------------------------- bounds
MaxStations == 2
MaxRows == 2
MaxCalls == 2

\* ------------------------------------------------------ program constants
RhoWater == 997
MainLimit == 3

VARIABLES
  cow,         \* build: copy-on-write pandas, the chained assignment of line 93 is lost
  zNaN,        \* build: geometry.z of a 2-D point is NaN (else the accessor raises)
  limit,       \* the limit argument of the two loops: None or <<k>>
  pc,          \* position in main (or in the driver of the specification)
  pnts,        \* pnts.points[0:limit] of the loop being run
  located,     \* pnts.points as the locator returned it for the loop being run
  i,           \* number of iterations of the current loop that have run
  files,       \* the file system: name -> content
  fetched,     \* history: <<category, id>> of every per-station fetch, in order
  formatted,   \* history: <<is_snowcourse, id>> of every formatter call, in order
  metaWrites,  \* history: number of writes of the metadata file
  lastRes,     \* history: kind of the outcome of the last collaborator call
  df,          \* SpecFmt: the raw frame handed to organize_for_snowmodel
  flag,        \* SpecFmt: is_snowcourse
  calls,       \* SpecFmt: number of calls made
  oracle,      \* SpecAnyOrder: the service's answer per <<category, id>>
  remaining    \* SpecAnyOrder: the cycles not yet run

vars == <<cow, zNaN, limit, pc, pnts, located, i, files, fetched, formatted,
          metaWrites, lastRes, df, flag, calls, oracle, remaining>>

\* ------------------------------------------------------------- rationals
\* Exact arithmetic stands for the float arithmetic of the code; every value
\* is kept in lowest terms with a positive denominator.
RECURSIVE GCD(_, _)
GCD(a, b) == IF b = 0 THEN a ELSE GCD(b, a % b)
Abs(n) == IF n < 0 THEN -n ELSE n
Rat(n, d) ==
  LET g == GCD(Abs(n), Abs(d))
  IN  IF d = 0 THEN [n |-> 0, d |-> 0]
      ELSE IF d > 0 THEN [n |-> n \div g, d |-> d \div g]
      ELSE [n |-> (-n) \div g, d |-> (-d) \div g]
NaN == Rat(0, 0)
IsFinite(a) == a.d # 0
RMul(a, b) ==
  IF ~(IsFinite(a) /\ IsFinite(b)) THEN NaN
  ELSE LET g1 == GCD(Abs(a.n), b.d)
           g2 == GCD(Abs(b.n), a.d)
       IN  Rat((a.n \div g1) * (b.n \div g2), (a.d \div g2) * (b.d \div g1))
\* a / b; x / 0 is not a finite number
RDiv(a, b) ==
  IF ~(IsFinite(a) /\ IsFinite(b)) \/ b.n = 0 THEN NaN
  ELSE RMul(a, Rat(b.d, b.n))
\* a > 0 as IEEE compares: False for NaN
RGt0(a) == IsFinite(a) /\ a.n > 0
Zero == Rat(0, 1)

\* p / q (q > 0) rounded to the nearest integer, ties to even
RoundDiv(p, q) ==
  LET f == p \div q
      r == p % q
  IN  IF 2 * r < q THEN f
      ELSE IF 2 * r > q THEN f + 1
      ELSE IF f % 2 = 0 THEN f ELSE f + 1

\* float_format="%.1f": a number as its count of tenths; NaN as the empty field
Fmt1(a) ==
  IF IsFinite(a) THEN [na |-> FALSE, tenths |-> RoundDiv(10 * a.n, a.d)]
  ELSE [na |-> TRUE, tenths |-> 0]

\* ---------------------------------------------------------------- strings
None == << >>
state_code == <<"C", "A">>
SNOCOURSE == <<"S", "N", "O", "C", "O", "U", "R", "S", "E">>
SMSITE == <<"S", "M", "S", "I", "T", "E">>
DotCsv == <<".", "c", "s", "v">>
MetaFile == <<"S", "i", "e", "r", "r", "a", "s", "_", "C", "O", "U", "R", "S", "E",
              "_", "s", "t", "a", "t", "i", "o", "n", "_", "i", "n", "f", "o",
              ".", "c", "s", "v">>

MonthAbbr == <<"Jan", "Feb", "Mar", "Apr", "May", "Jun",
               "Jul", "Aug", "Sep", "Oct", "Nov", "Dec">>
Digits == <<"0", "1", "2", "3", "4", "5", "6", "7", "8", "9">>
\* strftime('%d'): day of month, always two digits
Day2(d) == <<Digits[(d \div 10) + 1], Digits[(d % 10) + 1]>>

\* ------------------------------------------------------------ input data
StationPool == << <<"A", "B", "C">>, <<"A", "B", "D">>, <<"X", "Y", "Z">>,
                  <<"G", "I", "N">>, <<"D", "A", "N">> >>
StationIds == {StationPool[k] : k \in 1..MaxStations}

\* the sampling dates of a frame, by row
DateOf(k) == IF k % 2 = 1 THEN [y |-> 2024, m |-> 1, d |-> 15]
                          ELSE [y |-> 2023, m |-> 10, d |-> 5]

\* <<SWE, SNOWDEPTH>> readings in inches: each of the two missing, negative
\* or zero beside a positive one, both zero, and three positive pairs
InchReadings ==
  {<<NaN, Rat(1, 2)>>, <<Rat(1, 2), NaN>>, <<Rat(-1, 2), Rat(1, 2)>>,
   <<Rat(1, 2), Rat(-1, 2)>>, <<Rat(0, 1), Rat(1, 2)>>, <<Rat(1, 2), Rat(0, 1)>>,
   <<Rat(0, 1), Rat(0, 1)>>, <<Rat(1, 2), Rat(1, 2)>>, <<Rat(3, 2), Rat(1, 2)>>,
   <<Rat(1, 2), Rat(3, 2)>>}

\* what one station's fetch may hand back in a run of main: a reading with
\* snow on the ground, and one with none
SampleReadings == {<<Rat(3, 2), Rat(3, 2)>>, <<Rat(0, 1), Rat(3, 2)>>}

\* A raw frame: rows indexed by (datetime, site); snow-course frames carry
\* the measurementDate column as well.
RawRow(course, id, k, s, dp) ==
  IF course
  THEN [site |-> id, datetime |-> DateOf(k + 1), measurementDate |-> DateOf(k),
        SWE |-> s, SNOWDEPTH |-> dp]
  ELSE [site |-> id, datetime |-> DateOf(k), SWE |-> s, SNOWDEPTH |-> dp]

\* the frames of a station with lens rows, each row one of the readings
FramesOf(course, id, lens, readings) ==
  UNION {{[k \in 1..n |-> RawRow(course, id, k, m[k][1], m[k][2])] :
            m \in [1..n -> readings]} : n \in lens}

\* ------------------------------------------------- organize_for_snowmodel
\* mutant: the flag is ignored and every site is tagged SMSITE
sitetype_flag_ignored(is_snowcourse) == SMSITE

sitetype(is_snowcourse) == IF is_snowcourse THEN SNOCOURSE ELSE SMSITE

date_col(is_snowcourse) == IF is_snowcourse THEN "measurementDate" ELSE "datetime"

\* mutant: the station identifier is left out of the file name
out_file_shared(stationID, is_snowcourse) ==
  state_code \o <<"_">> \o sitetype(is_snowcourse) \o DotCsv

\* out_file = f"{state_code}_{stationID}_{sitetype}.csv"
out_file(stationID, is_snowcourse) ==
  state_code \o <<"_">> \o stationID \o <<"_">> \o sitetype(is_snowcourse) \o DotCsv

\* steps 3-4: rename, then inches -> mm and inches -> cm
swe_mm(row) == RMul(row.SWE, Rat(254, 10))
depth_cm(row) == RMul(row.SNOWDEPTH, Rat(254, 100))

\* ind = (df['swe'] > 0) & (df['depth'] > 0)
ind(row) == RGt0(swe_mm(row)) /\ RGt0(depth_cm(row))

\* 997 * 0.001 * df['swe'][ind] / (0.01 * df['depth'][ind])
density_expr(row) ==
  RDiv(RMul(RMul(Rat(RhoWater, 1), Rat(1, 1000)), swe_mm(row)),
       RMul(Rat(1, 100), depth_cm(row)))

\* df['density'] = 0; df['density'][ind] = ...   The second statement is a
\* chained assignment: it reaches df only when df['density'] is a view of
\* df (pandas without copy-on-write); under copy-on-write it is lost.
density(row, lost) == IF ~lost /\ ind(row) THEN density_expr(row) ELSE Zero

\* one line of df[coi].to_csv(out_file, float_format="%.1f", index=False)
csv_row(row, is_snowcourse, lost) ==
  LET date == row[date_col(is_snowcourse)]
  IN  [Y |-> date.y, M |-> MonthAbbr[date.m], D |-> Day2(date.d),
       swe |-> Fmt1(swe_mm(row)), depth |-> Fmt1(depth_cm(row)),
       density |-> Fmt1(density(row, lost))]

\* df['site'].iloc[0] raises IndexError on an empty frame; df[date_col]
\* raises KeyError when the frame has no such column
organize_raises(frame, is_snowcourse) ==
  \/ Len(frame) = 0
  \/ date_col(is_snowcourse) \notin DOMAIN frame[1]

\* mutant: the file is opened for appending
to_csv_append(fs, name, content) ==
  IF name \in DOMAIN fs THEN (name :> (fs[name] \o content)) @@ fs
  ELSE (name :> content) @@ fs

\* to_csv opens the file for writing: the content is replaced
to_csv(fs, name, content) == (name :> content) @@ fs

\* the file system after organize_for_snowmodel(frame, is_snowcourse)
organize_for_snowmodel(fs, frame, is_snowcourse, lost) ==
  IF organize_raises(frame, is_snowcourse) THEN fs
  ELSE to_csv(fs, out_file(frame[1].site, is_snowcourse),
              [k \in 1..Len(frame) |-> csv_row(frame[k], is_snowcourse, lost)])

\* ------------------------------------------------------------ the locator
\* A station as the locator returns it: a 3-D point, or a 2-D one (no z)
Point(k, has_z) ==
  [id |-> StationPool[k], x |-> Rat(-120 - k, 1), y |-> Rat(38 + k, 1),
   has_z |-> has_z, z |-> IF has_z THEN Rat(2000 + 100 * k, 1) ELSE NaN]

\* points_from_geometry: the stations inside the boundary, in service order
LocatorResults ==
  UNION {{[k \in 1..n |-> Point(k, k \notin noz)] : noz \in SUBSET (1..n)} :
           n \in 0..MaxStations}

\* ------------------------------------------------ make_snow_course_metadata
columns_order == <<"statecode", "station ID", "lat", "lon", "elev">>

\* df.geometry.z raises on a point without z in builds where it is not NaN
metadata_raises(points, z_is_nan) ==
  ~z_is_nan /\ \E k \in 1..Len(points) : ~points[k].has_z

\* df[columns_order].to_csv(..., index=False): header and one row per station
metadata_table(points) ==
  [header |-> columns_order,
   rows |-> [k \in 1..Len(points) |->
               <<state_code, points[k].id, points[k].y, points[k].x, points[k].z>>]]

\* ------------------------------------------------------- the station loops
Limits == {None} \cup {<<k>> : k \in 0..MainLimit}

\* limit = -1 if limit is None else limit
effective_limit(lim) == IF lim = None THEN -1 ELSE lim[1]

\* Python's s[0:stop]
PySlice0(s, stop) ==
  LET n == Len(s)
      e == IF stop < 0 THEN (IF n + stop < 0 THEN 0 ELSE n + stop)
           ELSE (IF stop < n THEN stop ELSE n)
  IN  SubSeq(s, 1, e)

\* mutant: the slice is forgotten and the loop runs over every station
loop_points_unsliced(points, lim) == points

\* pnts.points[0:limit]
loop_points(points, lim) == PySlice0(points, effective_limit(lim))

\* pnt.get_snow_course_data / pnt.get_daily_data: a frame, None, or an exception
NoData == [kind |-> "none", frame |-> << >>]
Raised == [kind |-> "raise", frame |-> << >>]
Data(f) == [kind |-> "data", frame |-> f]
\* the frames a station may hand back; metloom indexes a frame by the id of
\* the station it was fetched from
ServiceFrames(course, id) == FramesOf(course, id, {0, 1}, SampleReadings)
ServiceOutcomes(course, id) ==
  {NoData, Raised} \cup {Data(f) : f \in ServiceFrames(course, id)}

\* if df is not None: organize_for_snowmodel(df, is_snowcourse=...)
handle_fetched(fs, out, course, lost) ==
  IF out.kind = "data" THEN organize_for_snowmodel(fs, out.frame, course, lost) ELSE fs

\* mutant: the None check is missing, so a None frame raises in the formatter
iteration_raises_on_none(out, course) ==
  \/ out.kind # "data"
  \/ organize_raises(out.frame, course)

\* an exception of the fetch or of the formatter is not caught in the loop
iteration_raises(out, course) ==
  \/ out.kind = "raise"
  \/ out.kind = "data" /\ organize_raises(out.frame, course)

\* ------------------------------------------------------------------- main
\* mutant: main makes its calls in the opposite order
main_calls_reversed == <<"get_cdec_snotel_data", "get_snow_course_data",
                         "make_snow_course_metadata">>

\* the calls main makes, in order (lines 168, 171, 174)
main_calls == <<"make_snow_course_metadata", "get_snow_course_data",
                "get_cdec_snotel_data">>

\* pc = [step, at]: main is at its step-th call, about to make it ("call"),
\* inside its station loop ("loop"), gone with an exception ("aborted"), or
\* has returned ("done")
at_call(name) ==
  pc.at = "call" /\ pc.step <= Len(main_calls) /\ main_calls[pc.step] = name
in_loop(name) ==
  pc.at = "loop" /\ pc.step <= Len(main_calls) /\ main_calls[pc.step] = name
\* an uncaught exception ends the run where it is
aborted_at(here) == [here EXCEPT !.at = "aborted"]
\* the call returns and main goes on to its next statement
returned_from(here) ==
  IF here.step < Len(main_calls) THEN [step |-> here.step + 1, at |-> "call"]
  ELSE [step |-> here.step + 1, at |-> "done"]

\* mutant: the loop body is wrapped in try/except and goes on
after_iteration_caught(out, course, here) == here

\* where control is after one iteration of a loop
after_iteration(out, course, here) ==
  IF iteration_raises(out, course) THEN aborted_at(here) ELSE here

\* where control is after a call of the locator (and of what is done with
\* its result before the next collaborator call)
after_locator(raised, here, next) == IF raised THEN aborted_at(here) ELSE next

EmptyFiles == [name \in {} |-> 0]

unusedMain ==
  /\ zNaN = FALSE /\ pnts = << >> /\ i = 0 /\ fetched = << >> /\ formatted = << >>
  /\ metaWrites = 0
unusedFmt == /\ df = << >> /\ flag = FALSE /\ calls = 0
unusedAnyOrder == /\ oracle = << >> /\ remaining = {}

Init ==
  /\ cow \in BOOLEAN
  /\ zNaN \in BOOLEAN
  /\ limit \in Limits
  /\ pc = [step |-> 1, at |-> "call"]
  /\ pnts = << >>
  /\ located = << >>
  /\ i = 0
  /\ files = EmptyFiles
  /\ fetched = << >>
  /\ formatted = << >>
  /\ metaWrites = 0
  /\ lastRes = "start"
  /\ unusedFmt
  /\ unusedAnyOrder

\* make_snow_course_metadata()
MakeMetadata ==
  /\ at_call("make_snow_course_metadata")
  /\ \E raised \in BOOLEAN : \E points \in LocatorResults :
       LET fails == raised \/ metadata_raises(points, zNaN)
       IN  /\ raised => points = << >>
           /\ lastRes' = IF raised THEN "locator_raise"
                         ELSE IF fails THEN "z_raise" ELSE "located"
           /\ pc' = after_locator(fails, pc, returned_from(pc))
           /\ files' = IF fails THEN files
                       ELSE to_csv(files, MetaFile, metadata_table(points))
           /\ metaWrites' = IF fails THEN metaWrites ELSE metaWrites + 1
  /\ UNCHANGED <<cow, zNaN, limit, pnts, located, i, fetched, formatted,
                 df, flag, calls, oracle, remaining>>

\* the head of a station loop: the locator is called and its result sliced
StartLoop(name) ==
  /\ at_call(name)
  /\ \E raised \in BOOLEAN : \E n \in 0..MaxStations :
       LET points == [k \in 1..n |-> StationPool[k]]
       IN  /\ raised => n = 0
           /\ lastRes' = IF raised THEN "locator_raise" ELSE "located"
           /\ pc' = after_locator(raised, pc, [pc EXCEPT !.at = "loop"])
           /\ located' = points
           /\ pnts' = IF raised THEN << >> ELSE loop_points(points, limit)
  /\ i' = 0
  /\ UNCHANGED <<cow, zNaN, limit, files, fetched, formatted, metaWrites,
                 df, flag, calls, oracle, remaining>>

\* one iteration of a station loop: fetch, then format unless None came back
Iteration(name, course) ==
  /\ in_loop(name)
  /\ i < Len(pnts)
  /\ \E out \in ServiceOutcomes(course, pnts[i + 1]) :
       /\ fetched' = Append(fetched, <<course, pnts[i + 1]>>)
       /\ lastRes' = out.kind
       /\ formatted' = IF out.kind = "data"
                        THEN Append(formatted, <<course, pnts[i + 1]>>)
                        ELSE formatted
       /\ files' = handle_fetched(files, out, course, cow)
       /\ pc' = after_iteration(out, course, pc)
  /\ i' = IF pc'.at = "aborted" THEN i ELSE i + 1
  /\ UNCHANGED <<cow, zNaN, limit, pnts, located, metaWrites,
                 df, flag, calls, oracle, remaining>>

\* get_snow_course_data(start, end, limit) up to its loop
StartCourses == StartLoop("get_snow_course_data")

\* for pnt in pnts.points[0:limit] of get_snow_course_data
CourseIteration == Iteration("get_snow_course_data", TRUE)

\* get_cdec_snotel_data(start, end, limit) up to its loop
StartSensors == StartLoop("get_cdec_snotel_data")

\* for pnt in pnts.points[0:limit] of get_cdec_snotel_data
SensorIteration == Iteration("get_cdec_snotel_data", FALSE)

\* a station loop is exhausted and its function returns to main
LoopReturns ==
  /\ pc.at = "loop"
  /\ i = Len(pnts)
  /\ pc' = returned_from(pc)
  /\ UNCHANGED <<cow, zNaN, limit, pnts, located, i, files, fetched, formatted,
                 metaWrites, lastRes, df, flag, calls, oracle, remaining>>

Next ==
  \/ MakeMetadata
  \/ StartCourses
  \/ CourseIteration
  \/ StartSensors
  \/ SensorIteration
  \/ LoopReturns

Spec == Init /\ [][Next]_vars

\* ------------------------------------ organize_for_snowmodel on its own
\* a file left in the directory by an earlier run
StaleFiles ==
  to_csv(EmptyFiles, out_file(StationPool[1], FALSE),
         <<csv_row(RawRow(FALSE, StationPool[1], 1, Rat(1, 1), Rat(1, 1)), FALSE, FALSE),
           csv_row(RawRow(FALSE, StationPool[1], 2, Rat(1, 1), Rat(1, 1)), FALSE, FALSE),
           csv_row(RawRow(FALSE, StationPool[1], 3, Rat(1, 1), Rat(1, 1)), FALSE, FALSE),
           csv_row(RawRow(FALSE, StationPool[1], 4, Rat(1, 1), Rat(1, 1)), FALSE, FALSE)>>)

InitFmt ==
  /\ cow \in BOOLEAN
  /\ flag \in BOOLEAN
  /\ \E course \in BOOLEAN : \E id \in StationIds :
       df \in FramesOf(course, id, 0..MaxRows, InchReadings)
  /\ files = StaleFiles
  /\ calls = 0
  /\ pc = [step |-> 1, at |-> "organize_for_snowmodel"]
  /\ located = << >>
  /\ limit = None
  /\ lastRes = "start"
  /\ unusedMain
  /\ unusedAnyOrder

\* organize_for_snowmodel(df, is_snowcourse=flag), called once more
CallOrganize ==
  /\ pc.at = "organize_for_snowmodel"
  /\ calls < MaxCalls
  /\ calls' = calls + 1
  /\ files' = organize_for_snowmodel(files, df, flag, cow)
  /\ lastRes' = IF organize_raises(df, flag) THEN "raise" ELSE "data"
  /\ UNCHANGED <<cow, zNaN, limit, pc, pnts, located, i, fetched, formatted,
                 metaWrites, df, flag, oracle, remaining>>

NextFmt == CallOrganize

SpecFmt == InitFmt /\ [][NextFmt]_vars

\* ----------------------- the fetch-and-format cycles run in any order
\* the service's answer for a cycle <<course, id>>, fixed for the run
Answer(c, token) ==
  IF token = "none" THEN NoData
  ELSE Data([k \in 1..1 |->
               RawRow(c[1], c[2], k, IF token = "snow" THEN Rat(3, 2) ELSE Rat(0, 1),
                      Rat(3, 2))])

\* the cycles of one loop, in the order the serial loop runs them
CyclesOf(course, points, lim) ==
  LET sl == loop_points(points, lim)
  IN  [k \in 1..Len(sl) |-> <<course, sl[k]>>]

SerialCycles == CyclesOf(TRUE, located.courses, limit) \o CyclesOf(FALSE, located.sensors, limit)

Range(s) == {s[k] : k \in 1..Len(s)}

\* the file system after the cycles cs[k..] run one after the other
RECURSIVE SerialFiles(_, _, _)
SerialFiles(cs, k, fs) ==
  IF k > Len(cs) THEN fs
  ELSE SerialFiles(cs, k + 1,
                   handle_fetched(fs, Answer(cs[k], oracle[cs[k]]), cs[k][1], cow))

InitAnyOrder ==
  /\ cow \in BOOLEAN
  /\ limit \in {None, <<MainLimit>>}
  /\ \E nc \in 0..MaxStations : \E ns \in 0..MaxStations :
       located = [courses |-> [k \in 1..nc |-> StationPool[k]],
                  sensors |-> [k \in 1..ns |-> StationPool[k]]]
  /\ remaining = Range(SerialCycles)
  /\ oracle \in [remaining -> {"none", "bare", "snow"}]
  /\ files = EmptyFiles
  /\ pc = [step |-> 1, at |-> "any_order"]
  /\ lastRes = "start"
  /\ unusedMain
  /\ unusedFmt

\* one cycle, any of those not yet run: fetch, then format unless None
RunCycle ==
  /\ pc.at = "any_order"
  /\ \E c \in remaining :
       /\ remaining' = remaining \ {c}
       /\ files' = handle_fetched(files, Answer(c, oracle[c]), c[1], cow)
       /\ lastRes' = Answer(c, oracle[c]).kind
  /\ UNCHANGED <<cow, zNaN, limit, pc, pnts, located, i, fetched, formatted,
                 metaWrites, df, flag, calls, oracle>>

NextAnyOrder == RunCycle

SpecAnyOrder == InitAnyOrder /\ [][NextAnyOrder]_vars

\* ------------------------------------------------------------- properties
Min(a, b) == IF a < b THEN a ELSE b
IsPrefix(s, t) == Len(s) <= Len(t) /\ SubSeq(t, 1, Len(s)) = s

\* the identifiers of the stations fetched so far in one category, in order
FetchedIds(course) ==
  LET sel == SelectSeq(fetched, LAMBDA e : e[1] = course)
  IN  [k \in 1..Len(sel) |-> sel[k][2]]

\* the category of the loop main is in
InCourseLoop == pc.step <= Len(main_calls) /\ main_calls[pc.step] = "get_snow_course_data"

\* the file name the specification gives a station's observations
ExpectedName(id, course) ==
  <<"C", "A", "_">> \o id \o
    (IF course THEN <<"_", "S", "N", "O", "C", "O", "U", "R", "S", "E", ".", "c", "s", "v">>
     ELSE <<"_", "S", "M", "S", "I", "T", "E", ".", "c", "s", "v">>)

StationFiles == DOMAIN files \ {MetaFile}
StationFilesOf(course) == {ExpectedName(id, course) : id \in StationIds} \cap DOMAIN files

\* the formatter calls that returned (the last one raised if the run ended in it)
Written ==
  IF pc.at = "aborted" /\ lastRes = "data" THEN SubSeq(formatted, 1, Len(formatted) - 1)
  ELSE formatted

\* C1: with limit=None a station loop that has run to its end has fetched
\* every station the locator returned, the last one included.
C1_NoLimitFetchesEveryStation ==
  (limit = None /\ pc.at = "loop" /\ i = Len(pnts))
    => FetchedIds(InCourseLoop) = located

\* C2: an iteration whose fetch returns None changes no file, calls no
\* formatter and leaves the loop running at the next station.
C2_AbsenceSkipsStation ==
  [][(fetched' # fetched /\ lastRes' = "none")
       => (files' = files /\ formatted' = formatted /\ pc' = pc /\ i' = i + 1)]_vars

\* C2 witness: in the course loop the first fetch returned None and the
\* second station was then fetched and formatted.
C2_Witness ==
  /\ pc.at = "loop" /\ InCourseLoop
  /\ Len(fetched) = 2 /\ Len(formatted) = 1 /\ lastRes = "data"
  /\ StationFiles = {ExpectedName(fetched[2][2], TRUE)}

\* the density the specification gives a raw row
ClaimedDensity(row) ==
  LET s == RMul(row.SWE, Rat(254, 10))
      d == RMul(row.SNOWDEPTH, Rat(254, 100))
  IN  IF RGt0(s) /\ RGt0(d)
      THEN RDiv(RMul(Rat(997, 1), s), RMul(Rat(10, 1), d))
      ELSE Rat(0, 1)

\* C3: every row organize_for_snowmodel writes holds, as its density,
\* 997 * swe_mm / (10 * depth_cm) when swe_mm > 0 and depth_cm > 0, and 0
\* otherwise (to the one decimal place of the file).
C3_DensityOfEveryRow ==
  (calls >= 1 /\ lastRes = "data")
    => \A k \in 1..Len(df) :
         files[ExpectedName(df[1].site, flag)][k].density = Fmt1(ClaimedDensity(df[k]))

\* C4: the metadata file is written once, before any fetch and before any
\* station file, and no snow-course iteration follows a sensor iteration.
C4_MetadataThenCoursesThenSensors ==
  /\ metaWrites <= 1
  /\ (fetched # << >> \/ StationFiles # {}) => (metaWrites = 1 /\ MetaFile \in DOMAIN files)
  /\ pc.at = "done" => metaWrites = 1
  /\ \A a, b \in 1..Len(fetched) : (a < b /\ fetched[b][1]) => fetched[a][1]
  /\ \A a, b \in 1..Len(formatted) : (a < b /\ formatted[b][1]) => formatted[a][1]

\* C4 witness: main has returned after fetching a snow course and a sensor.
C4_Witness ==
  /\ pc.at = "done" /\ metaWrites = 1
  /\ \E a, b \in 1..Len(fetched) : a < b /\ fetched[a][1] /\ ~fetched[b][1]
  /\ Len(formatted) >= 2

\* C5: the station files are exactly CA_<id>_SNOCOURSE.csv for the snow
\* courses formatted and CA_<id>_SMSITE.csv for the sensors formatted, one
\* file per formatter call: no two calls wrote the same file.
C5_FileNamePerStationAndKind ==
  /\ StationFiles = {ExpectedName(e[2], e[1]) : e \in {Written[k] : k \in 1..Len(Written)}}
  /\ Cardinality(StationFiles) = Len(Written)

\* C5 witness: a snow course and a sensor with the same identifier both
\* have their file.
C5_Witness ==
  \E id \in StationIds :
    /\ ExpectedName(id, TRUE) \in DOMAIN files
    /\ ExpectedName(id, FALSE) \in DOMAIN files
    /\ <<TRUE, id>> \in {formatted[k] : k \in 1..Len(formatted)}
    /\ <<FALSE, id>> \in {formatted[k] : k \in 1..Len(formatted)}

\* C6: a call of organize_for_snowmodel writes a file of exactly the rows
\* of its frame and touches no other file, and a further call with the same
\* frame and flag leaves the file system as the first call left it.
C6_SecondCallChangesNothing ==
  [][(calls' = calls + 1)
       => /\ calls >= 1 => files' = files
          /\ lastRes' = "data" =>
               LET name == ExpectedName(df[1].site, flag)
               IN  /\ DOMAIN files' = DOMAIN files \cup {name}
                   /\ Len(files'[name]) = Len(df)
                   /\ \A n \in DOMAIN files \ {name} : files'[n] = files[n]
          /\ lastRes' = "raise" => files' = files]_vars

\* C6 witness: two calls were made on a two-row frame whose file existed
\* before the first call with other content.
C6_Witness ==
  /\ calls = 2 /\ lastRes = "data" /\ Len(df) = 2
  /\ ExpectedName(df[1].site, flag) \in DOMAIN StaleFiles
  /\ files # StaleFiles

\* C7: the metadata file never holds a row whose elevation is missing.
C7_NoRowWithoutElevation ==
  MetaFile \in DOMAIN files
    => \A k \in 1..Len(files[MetaFile].rows) : IsFinite(files[MetaFile].rows[k][5])

\* C8: a step in which the locator or a fetch raises ends the run there and
\* changes no file, and once the run has ended that way nothing is fetched,
\* formatted or written any more.
C8_ExceptionAbortsRun ==
  [][/\ (lastRes' \in {"raise", "locator_raise"} /\ <<fetched, pc, lastRes>>' # <<fetched, pc, lastRes>>)
          => (pc'.at = "aborted" /\ files' = files)
     /\ pc.at = "aborted"
          => (fetched' = fetched /\ formatted' = formatted /\ files' = files /\ pc' = pc)]_vars

\* C8 witness: a fetch raised with a later station still to come, after
\* station files had been written.
C8_Witness ==
  /\ pc.at = "aborted" /\ lastRes = "raise"
  /\ i + 1 < Len(pnts)
  /\ StationFiles # {}

C10_LimitTakesFirstStations ==
  limit # None =>
    /\ pc.at = "loop" =>
         LET want == SubSeq(located, 1, Min(limit[1], Len(located)))
             got == FetchedIds(InCourseLoop)
         IN  /\ IsPrefix(got, want)
             /\ i = Len(pnts) => got = want
    /\ \A course \in BOOLEAN :
         /\ Len(FetchedIds(course)) <= limit[1]
         /\ Cardinality(StationFilesOf(course)) <= limit[1]

\* C10 witness: the limit is 1, two stations were located, the loop has
\* run to its end and fetched one.
C10_Witness ==
  /\ limit = <<1>> /\ pc.at = "loop" /\ i = Len(pnts)
  /\ Len(located) = 2 /\ Len(FetchedIds(InCourseLoop)) = 1

====
